---- MODULE Spec2Model ----
(***************************************************************************)
(* The useUpload hook of packages/hooks/src/hooks/useUpload.ts: a          *)
(* resumable, chunked (TUS-like) upload with pause / resume / cancel and a *)
(* retry loop with exponential backoff around every HTTP request.          *)
(*                                                                         *)
(* The hook's React state and refs are the variables.  Every async         *)
(* function of the hook runs as a task; a task is suspended at an await    *)
(* (getInfoAsync, fetch, the backoff timer, response.text(),               *)
(* readAsStringAsync) and one action runs it from the resolution of that   *)
(* await to its next await, as the JavaScript event loop does.  The calls  *)
(* of the caller (upload, uploadBase64, pause, resume, cancel, resetState) *)
(* interleave with the tasks at these awaits.                              *)
(***************************************************************************)
EXTENDS Integers, Sequences, FiniteSets, TLC

VARIABLES
    progress,               \* useState: a rational number of percent, [n, d]
    loading,                \* useState
    error,                  \* useState: an error record, NoError for null
    uploadResponse,         \* useState: [kind: "null" | "empty" | "cid", id]
    retryCount,             \* useState
    uploadUrlRef,           \* useRef: the Location of the session, NoUrl for null
    pausedRef,              \* useRef
    cancelledRef,           \* useRef
    uploadOffsetRef,        \* useRef
    fileInfoRef,            \* useRef: [set, fileSize, isBase64, hasData, hasUri]
    chunkSizeRef,           \* useRef
    retryOptionsRef,        \* useRef
    lastResponseHeadersRef, \* useRef: the response whose headers are kept, NullHeaders for null
    tasks,                  \* the suspended async calls, by slot
    uploads,                \* how many times upload()/uploadBase64() were called
    calls,                  \* how many times pause/resume/cancel/resetState were called
    created,                \* how many upload URLs the server has handed out
    history                 \* since the last upload call: whether an await failed or
                            \* cancel / resetState was called (disturbed), and the
                            \* requests sent as long as that is not the case

hookVars == <<progress, loading, error, uploadResponse, retryCount, uploadUrlRef,
              pausedRef, cancelledRef, uploadOffsetRef, fileInfoRef, chunkSizeRef,
              retryOptionsRef, lastResponseHeadersRef>>
vars == <<progress, loading, error, uploadResponse, retryCount, uploadUrlRef,
          pausedRef, cancelledRef, uploadOffsetRef, fileInfoRef, chunkSizeRef,
          retryOptionsRef, lastResponseHeadersRef, tasks, uploads, calls, created,
          history>>

---------------------------------------------------------------------------
(* Bounds of the model *)

MaxTasks == 2
MaxUploads == 1
MaxCalls == 3
MaxFileSize == 3
MaxChunkSize == 2
MaxB64Quads == 1
MaxSessions == 2

---------------------------------------------------------------------------
(* Program constants *)

BASE_CHUNK_SIZE == 50 * 1024 * 1024 + 1

DEFAULT_RETRY_OPTIONS ==
    [maxRetries |-> 3,
     initialDelay |-> 1000,
     maxDelay |-> 30000,
     backoffMultiplier |-> 2,
     retryableStatuses |-> {408, 429, 500, 502, 503, 504}]

NoUrl == 0

---------------------------------------------------------------------------
(* Values *)

Min(a, b) == IF a <= b THEN a ELSE b

RECURSIVE Pow(_, _)
Pow(b, e) == IF e <= 0 THEN 1 ELSE b * Pow(b, e - 1)

\* A number of percent as the fraction n / d (d > 0).
Frac(n, d) == [n |-> n, d |-> d]
FracLeq(p, q) == p.n * q.d <= q.n * p.d
FracEq(p, q) == p.n * q.d = q.n * p.d
FracMin(p, q) == IF FracLeq(p, q) THEN p ELSE q

Err(name, status, msg) == [name |-> name, status |-> status, msg |-> msg]
NoError == Err("null", 0, "")
Undefined == Err("undefined", 0, "")

NullResponse == [kind |-> "null", id |-> 0]
EmptyResponse == [kind |-> "empty", id |-> 0]
CidResponse(id) == [kind |-> "cid", id |-> id]

NullHeaders == [set |-> FALSE, status |-> 0, location |-> 0, cid |-> 0]
HeadersOf(resp) ==
    [set |-> TRUE, status |-> resp.status, location |-> resp.location, cid |-> resp.cid]

NoFileInfo ==
    [set |-> FALSE, fileSize |-> 0, isBase64 |-> FALSE, hasData |-> FALSE, hasUri |-> FALSE]

\* A task: where it is suspended (pc), the try block it is inside of (ctx:
\* "create" for upload / uploadBase64, "chunk" for continueUpload), the locals
\* of fetchWithRetry (url, attempt, maxRetries, lastError, delay) and of
\* continueUpload (offset, chunkLength, fileSize, isBase64), the status of the
\* response whose text is awaited, and the history of the current
\* fetchWithRetry call: the requests it sent, the maxRetries configured when it
\* started, whether every answer so far was a retryable status, and whether
\* cancel() was called during one of its retry delays; and whether cancel()
\* was called since the task started.
IdleTask ==
    [pc |-> "idle", origin |-> "none", ctx |-> "none", url |-> 0,
     attempt |-> 0, maxRetries |-> 0, lastError |-> Undefined, delay |-> 0,
     status |-> 0,
     sent |-> 0, configured |-> 0, allRetryable |-> TRUE, cancelledInWait |-> FALSE,
     cancelSeen |-> FALSE, session |-> 0,
     offset |-> 0, chunkLength |-> 0, fileSize |-> 0, isBase64 |-> FALSE]

Slots == 1 .. MaxTasks
FreeSlots == {i \in Slots : tasks[i].pc = "idle"}
NewSlot == CHOOSE i \in FreeSlots : \A j \in FreeSlots : i <= j

---------------------------------------------------------------------------
(* Inputs of the caller and answers of the environment *)

ChunkSizeOptions == {0, MaxChunkSize}      \* 0: options.chunkSize not given

\* options.retryOptions as the caller writes it: any subset of the fields.
RetryOptionInputs ==
    { [x \in {} |-> 0],
      [maxRetries |-> 0],
      [maxRetries |-> 0 - 1],
      [maxRetries |-> 1, retryableStatuses |-> {}],
      [maxRetries |-> 2, backoffMultiplier |-> 3, retryableStatuses |-> {401, 500}],
      [maxRetries |-> 2, initialDelay |-> 1000, backoffMultiplier |-> 1000,
       maxDelay |-> 100] }

\* The outcomes of FileSystem.getInfoAsync.
GetInfoOutcomes ==
    { [kind |-> "ok", size |-> n] : n \in 0 .. MaxFileSize } \cup
    { [kind |-> "missing", size |-> 0], [kind |-> "reject", size |-> 0] }

\* A cleaned base64 string, by its length and the number of its '=' signs.
Base64Inputs ==
    { [len |-> 4 * k, pad |-> p] : k \in 0 .. MaxB64Quads, p \in 0 .. 2 } \
    { [len |-> 0, pad |-> p] : p \in 1 .. 2 }

ResponseOk(resp) == resp.status >= 200 /\ resp.status <= 299

CreateStatuses == {201, 401, 500}
ChunkStatuses == {204, 404, 500}

\* The responses a request can get.  A 2xx creation response may carry a Location
\* (a fresh upload URL), a 2xx chunk response may carry the Upload-Cid of its URL.
Responses(t) ==
    IF t.ctx = "create"
    THEN { r \in [status : CreateStatuses, location : {0, created + 1}, cid : {0}] :
             r.location # 0 => ResponseOk(r) }
    ELSE { r \in [status : ChunkStatuses, location : {0}, cid : {0, t.url}] :
             r.cid # 0 => ResponseOk(r) }

---------------------------------------------------------------------------
(* The hook's state as one record, for the synchronous code between awaits *)

Cur ==
    [progress |-> progress, loading |-> loading, error |-> error,
     uploadResponse |-> uploadResponse, retryCount |-> retryCount,
     uploadUrlRef |-> uploadUrlRef, pausedRef |-> pausedRef,
     cancelledRef |-> cancelledRef, uploadOffsetRef |-> uploadOffsetRef,
     fileInfoRef |-> fileInfoRef, chunkSizeRef |-> chunkSizeRef,
     retryOptionsRef |-> retryOptionsRef,
     lastResponseHeadersRef |-> lastResponseHeadersRef]

Set(h) ==
    /\ progress' = h.progress
    /\ loading' = h.loading
    /\ error' = h.error
    /\ uploadResponse' = h.uploadResponse
    /\ retryCount' = h.retryCount
    /\ uploadUrlRef' = h.uploadUrlRef
    /\ pausedRef' = h.pausedRef
    /\ cancelledRef' = h.cancelledRef
    /\ uploadOffsetRef' = h.uploadOffsetRef
    /\ fileInfoRef' = h.fileInfoRef
    /\ chunkSizeRef' = h.chunkSizeRef
    /\ retryOptionsRef' = h.retryOptionsRef
    /\ lastResponseHeadersRef' = h.lastResponseHeadersRef

\* What a synchronous stretch of code leaves: the hook's state and the task.
Bundle(h, t) == [h |-> h, t |-> t]

---------------------------------------------------------------------------
(* resetState and finalizeUpload *)

ResetState(h) ==
    [h EXCEPT !.progress = Frac(0, 1),
              !.error = NoError,
              !.uploadResponse = NullResponse,
              !.retryCount = 0,
              !.uploadUrlRef = NoUrl,
              !.pausedRef = FALSE,
              !.cancelledRef = FALSE,
              !.uploadOffsetRef = 0,
              !.fileInfoRef = NoFileInfo]

\* The identifier finalizeUpload reports: "" when no response headers are kept,
\* the Upload-Cid header of the kept headers, or null when they carry none.
FinalCid(headers) ==
    IF headers.set
    THEN IF headers.cid # 0 THEN CidResponse(headers.cid) ELSE NullResponse
    ELSE EmptyResponse

FinalizeUpload(h) ==
    IF h.uploadUrlRef = NoUrl \/ ~h.fileInfoRef.set
    THEN h
    ELSE [h EXCEPT !.uploadResponse = FinalCid(h.lastResponseHeadersRef),
                   !.progress = Frac(100, 1),
                   !.loading = FALSE]

---------------------------------------------------------------------------
(* The catch blocks *)

\* err instanceof Error ? err : new Error(msg)
Caught(err, msg) == IF err.name = "undefined" THEN Err("Error", 0, msg) ELSE err

\* Mutant: the catch block of continueUpload leaves loading as it is.
CatchContinueUploadKeepsLoading(h, err) ==
    [h EXCEPT !.error = Caught(err, "Unknown error during upload")]

CatchContinueUpload(h, err) ==
    [h EXCEPT !.error = Caught(err, "Unknown error during upload"),
              !.loading = FALSE]

CatchUpload(h, err, origin) ==
    [h EXCEPT !.error =
                 Caught(err, IF origin = "uploadBase64"
                             THEN "Unknown error during base64 upload initialization"
                             ELSE "Unknown error during upload initialization"),
              !.loading = FALSE]

\* An exception thrown in task t reaches the try/catch the task is inside of:
\* the one of continueUpload, or the one of upload / uploadBase64.
Throw(h, t, err) ==
    Bundle(IF t.ctx = "chunk" THEN CatchContinueUpload(h, err)
                              ELSE CatchUpload(h, err, t.origin),
           IdleTask)

---------------------------------------------------------------------------
(* fetchWithRetry *)

\* Mutant: one retry more than configured.
MaxRetriesOfPlusOne(opts) == opts.maxRetries + 1

\* const maxRetries = retryOptionsRef.current.maxRetries
MaxRetriesOf(opts) == opts.maxRetries

\* Mutant: the loop stops one attempt early.
LoopConditionStrict(attempt, maxRetries) == attempt < maxRetries

\* for (...; attempt <= maxRetries; ...)
LoopCondition(attempt, maxRetries) == attempt <= maxRetries

\* Mutant: every response is returned, none is retried.
ReturnsResponseAlways(resp, attempt, maxRetries) == TRUE

\* if (response.ok || attempt === maxRetries) return response
ReturnsResponse(resp, attempt, maxRetries) ==
    ResponseOk(resp) \/ attempt = maxRetries

\* Mutant: the statuses that are not listed are retried.
IsRetryableStatusInverted(opts, status) == status \notin opts.retryableStatuses

\* Mutant: every failure status is retried.
IsRetryableStatusAny(opts, status) == TRUE

\* retryOptionsRef.current.retryableStatuses.includes(response.status)
IsRetryableStatus(opts, status) == status \in opts.retryableStatuses

\* Mutant: the delay is not capped.
BackoffDelayUncapped(opts, attempt) == opts.initialDelay * Pow(2, attempt)

\* Math.min(initialDelay * Math.pow(2, attempt), maxDelay)
BackoffDelay(opts, attempt) ==
    Min(opts.initialDelay * Pow(2, attempt), opts.maxDelay)

\* Mutant: a transport failure always ends the loop.
BreaksOnRejectAlways(attempt, maxRetries) == TRUE

\* catch (error) { lastError = error; if (attempt === maxRetries) break; }
BreaksOnReject(attempt, maxRetries) == attempt = maxRetries

\* The top of a loop iteration: the loop condition, the cancelled check, and
\* the fetch; leaving the loop throws lastError.
LoopTop(h, t) ==
    IF LoopCondition(t.attempt, t.maxRetries) /\ ~h.cancelledRef
    THEN Bundle(h, [t EXCEPT !.pc = "fetch", !.sent = @ + 1])
    ELSE Throw(h, t, t.lastError)

\* Mutant: the attempt counter of the call before is kept.
FetchWithRetryKeepsAttempt(h, t, url) ==
    LoopTop(h, [t EXCEPT !.url = url,
                         !.maxRetries = MaxRetriesOf(h.retryOptionsRef),
                         !.configured = h.retryOptionsRef.maxRetries,
                         !.lastError = Undefined,
                         !.delay = 0,
                         !.status = 0,
                         !.sent = 0,
                         !.allRetryable = TRUE])

\* The call: maxRetries is read once, the other options at their use.
FetchWithRetry(h, t, url) ==
    LoopTop(h, [t EXCEPT !.url = url,
                         !.attempt = 0,
                         !.maxRetries = MaxRetriesOf(h.retryOptionsRef),
                         !.configured = h.retryOptionsRef.maxRetries,
                         !.lastError = Undefined,
                         !.delay = 0,
                         !.status = 0,
                         !.sent = 0,
                         !.allRetryable = TRUE])

\* "Wait before retry": the timer is started, or the loop goes on at once.
WaitBeforeRetry(h, t) ==
    IF t.attempt < t.maxRetries
    THEN Bundle(h, [t EXCEPT !.pc = "delay",
                             !.delay = BackoffDelay(h.retryOptionsRef, t.attempt)])
    ELSE LoopTop(h, [t EXCEPT !.attempt = @ + 1])

\* The timer fired: setRetryCount(attempt + 1), attempt++, next iteration.
AfterDelay(h, t) ==
    LoopTop([h EXCEPT !.retryCount = t.attempt + 1],
            [t EXCEPT !.attempt = @ + 1, !.delay = 0])

---------------------------------------------------------------------------
(* continueUpload and the code after the two calls of fetchWithRetry *)

\* Mutant: the paused check is left out.
PausedCheckNever(h) == FALSE

\* if (pausedRef.current) { return; }
PausedCheck(h) == h.pausedRef

ContinueUpload(h, task) ==
    LET t == [task EXCEPT !.ctx = "chunk"] IN
    IF h.uploadUrlRef = NoUrl \/ ~h.fileInfoRef.set
    THEN Bundle(h, IdleTask)
    ELSE IF h.cancelledRef
    THEN Bundle(ResetState(h), IdleTask)
    ELSE IF PausedCheck(h)
    THEN Bundle(h, IdleTask)
    ELSE LET fileSize == h.fileInfoRef.fileSize
             offset == h.uploadOffsetRef
         IN  IF offset >= fileSize
             THEN Bundle(FinalizeUpload(h), IdleTask)
             ELSE LET endOffset == Min(offset + h.chunkSizeRef, fileSize)
                      t1 == [t EXCEPT !.offset = offset,
                                      !.chunkLength = endOffset - offset,
                                      !.fileSize = fileSize,
                                      !.isBase64 = h.fileInfoRef.isBase64]
                  IN  IF h.fileInfoRef.isBase64 /\ h.fileInfoRef.hasData
                      THEN FetchWithRetry(h, t1, h.uploadUrlRef)
                      ELSE IF h.fileInfoRef.hasUri
                      THEN Bundle(h, [t1 EXCEPT !.pc = "read"])
                      ELSE Throw(h, t1, Err("Error", 0,
                                            "No file URI or base64 data available"))

\* readAsStringAsync resolved: the chunk is sent to uploadUrlRef.current as it
\* is now, with the offset and length computed before the read.
AfterRead(h, t) == FetchWithRetry(h, t, h.uploadUrlRef)

\* Math.min((newOffset / fileSize) * 100, 99.9)
NewProgress(newOffset, fileSize) ==
    FracMin(Frac(newOffset * 100, fileSize), Frac(999, 10))

\* Mutant: the offset of the chunk is left out of the new offset.
NewOffsetOfLength(offset, chunkLength) == chunkLength

\* offset + chunkLength
NewOffset(offset, chunkLength) == offset + chunkLength

\* Mutant: the offset is moved before the status of the response is looked at.
ChunkReturnedMovesOffsetFirst(h, t, resp) ==
    LET newOffset == NewOffset(t.offset, t.chunkLength)
        h1 == [h EXCEPT !.lastResponseHeadersRef = HeadersOf(resp),
                        !.uploadOffsetRef = newOffset,
                        !.progress = NewProgress(newOffset, t.fileSize)]
    IN  IF ~ResponseOk(resp)
        THEN Bundle(h1, [t EXCEPT !.pc = "text", !.status = resp.status])
        ELSE IF t.isBase64 /\ newOffset >= t.fileSize
             THEN Bundle(FinalizeUpload(h1), IdleTask)
             ELSE ContinueUpload(h1, t)

\* continueUpload after fetchWithRetry returned a response.
ChunkReturned(h, t, resp) ==
    LET h1 == [h EXCEPT !.lastResponseHeadersRef = HeadersOf(resp)] IN
    IF ~ResponseOk(resp)
    THEN Bundle(h1, [t EXCEPT !.pc = "text", !.status = resp.status])
    ELSE LET newOffset == NewOffset(t.offset, t.chunkLength)
             h2 == [h1 EXCEPT !.uploadOffsetRef = newOffset,
                              !.progress = NewProgress(newOffset, t.fileSize)]
         IN  IF t.isBase64 /\ newOffset >= t.fileSize
             THEN Bundle(FinalizeUpload(h2), IdleTask)
             ELSE ContinueUpload(h2, t)

\* Mutant: the Location header is not checked.
CreateReturnedAnyLocation(h, t, resp) ==
    IF ~ResponseOk(resp)
    THEN Bundle(h, [t EXCEPT !.pc = "text", !.status = resp.status])
    ELSE ContinueUpload([h EXCEPT !.uploadUrlRef = resp.location], t)

\* initializeAndStartUpload after fetchWithRetry returned a response.
CreateReturned(h, t, resp) ==
    IF ~ResponseOk(resp)
    THEN Bundle(h, [t EXCEPT !.pc = "text", !.status = resp.status])
    ELSE IF resp.location = 0
    THEN Throw(h, t, Err("NetworkError", resp.status, "Upload URL not provided"))
    ELSE ContinueUpload([h EXCEPT !.uploadUrlRef = resp.location], t)

Returned(h, t, resp) ==
    IF t.ctx = "create" THEN CreateReturned(h, t, resp) ELSE ChunkReturned(h, t, resp)

\* fetch resolved with a response (the try block of the loop).
OnResponse(h, t, resp) ==
    IF ReturnsResponse(resp, t.attempt, t.maxRetries)
    THEN Returned(h, t, resp)
    ELSE IF ~IsRetryableStatus(h.retryOptionsRef, resp.status)
    THEN Returned(h, t, resp)
    ELSE WaitBeforeRetry(h, [t EXCEPT !.lastError =
                                Err("NetworkError", resp.status, "HTTP error during retry")])

\* fetch rejected (the catch block of the loop).
OnReject(h, t) ==
    LET t1 == [t EXCEPT !.lastError = Err("TypeError", 0, "Network request failed")] IN
    IF BreaksOnReject(t.attempt, t.maxRetries)
    THEN Throw(h, t1, t1.lastError)
    ELSE WaitBeforeRetry(h, t1)

\* response.text() resolved: the error of a failed response is thrown.
AfterText(h, t) ==
    IF t.ctx = "create"
    THEN IF t.status = 401 \/ t.status = 403
         THEN Throw(h, t, Err("AuthenticationError", t.status, "Authentication failed"))
         ELSE Throw(h, t, Err("NetworkError", t.status, "Error initializing upload"))
    ELSE Throw(h, t, Err("NetworkError", t.status, "HTTP error during chunk upload"))

\* initializeAndStartUpload up to its await: the creation request.
InitializeAndStartUpload(h, t) ==
    IF ~h.fileInfoRef.set
    THEN Throw(h, t, Err("Error", 0, "No file info available"))
    ELSE FetchWithRetry(h, [t EXCEPT !.ctx = "create"], NoUrl)

---------------------------------------------------------------------------
(* The functions the hook returns, and the resolutions of the awaits *)

\* The history of a session that has just been started.
NoHistory == [requests |-> <<>>, disturbed |-> FALSE]

Disturbed == [requests |-> <<>>, disturbed |-> TRUE]

DisturbedIf(hist, cond) == IF cond THEN Disturbed ELSE hist

\* A task that comes out of a step awaiting a fetch has just sent a request.
Logged(hist, t) ==
    IF t.pc = "fetch" /\ ~hist.disturbed
    THEN [hist EXCEPT !.requests =
             Append(@, [kind |-> t.ctx, offset |-> t.offset, length |-> t.chunkLength])]
    ELSE hist

Apply(b, slot, hist) ==
    /\ Set(b.h)
    /\ tasks' = [tasks EXCEPT ![slot] = b.t]
    /\ history' = Logged(hist, b.t)

\* options.chunkSize && options.chunkSize > 0 ? options.chunkSize : BASE_CHUNK_SIZE
ChunkSizeOf(opt) == IF opt > 0 THEN opt ELSE BASE_CHUNK_SIZE

\* { ...DEFAULT_RETRY_OPTIONS, ...options.retryOptions }
MergeRetryOptions(input) ==
    [f \in DOMAIN DEFAULT_RETRY_OPTIONS |->
        IF f \in DOMAIN input THEN input[f] ELSE DEFAULT_RETRY_OPTIONS[f]]

\* (cleanBase64.length * 3) / 4 - padding
Base64FileSize(b64) == (b64.len * 3) \div 4 - b64.pad

\* The start of upload and uploadBase64: resetState, setLoading(true), options.
StartOfUpload(h, chunkOpt, retryOpt) ==
    [ResetState(h) EXCEPT !.loading = TRUE,
                          !.chunkSizeRef = ChunkSizeOf(chunkOpt),
                          !.retryOptionsRef = MergeRetryOptions(retryOpt)]

\* upload(fileUri, network, url, options), up to await getInfoAsync.
Upload(chunkOpt, retryOpt) ==
    /\ FreeSlots # {}
    /\ Apply(Bundle(StartOfUpload(Cur, chunkOpt, retryOpt),
                    [IdleTask EXCEPT !.pc = "getInfo", !.origin = "upload",
                                     !.ctx = "create", !.session = uploads + 1]),
             NewSlot, NoHistory)
    /\ uploads' = uploads + 1
    /\ UNCHANGED <<calls, created>>

\* getInfoAsync resolved or rejected: the rest of upload up to the creation request.
GetInfoDone(s, outcome) ==
    /\ tasks[s].pc = "getInfo"
    /\ Apply(IF outcome.kind = "reject"
             THEN Throw(Cur, tasks[s], Err("Error", 0, "getInfoAsync failed"))
             ELSE IF outcome.kind = "missing"
             THEN Throw(Cur, tasks[s], Err("ValidationError", 0, "File does not exist"))
             ELSE InitializeAndStartUpload(
                      [Cur EXCEPT !.fileInfoRef =
                          [set |-> TRUE, fileSize |-> outcome.size, isBase64 |-> FALSE,
                           hasData |-> FALSE, hasUri |-> TRUE]],
                      tasks[s]),
             s, DisturbedIf(history, outcome.kind # "ok"))
    /\ UNCHANGED <<uploads, calls, created>>

\* Mutant: a source of exactly the chunk size is rejected.
UploadBase64RejectsEqual(b64, chunkOpt, retryOpt) ==
    /\ FreeSlots # {}
    /\ LET h == StartOfUpload(Cur, chunkOpt, retryOpt)
           t == [IdleTask EXCEPT !.origin = "uploadBase64", !.ctx = "create",
                                 !.session = uploads + 1]
           fileSize == Base64FileSize(b64)
       IN  Apply(IF fileSize >= h.chunkSizeRef
                 THEN Throw(h, t, Err("ValidationError", 0,
                                      "Base64 file size exceeds chunk size"))
                 ELSE InitializeAndStartUpload(
                          [h EXCEPT !.fileInfoRef =
                              [set |-> TRUE, fileSize |-> fileSize, isBase64 |-> TRUE,
                               hasData |-> b64.len > 0, hasUri |-> FALSE]],
                          t),
                 NewSlot, NoHistory)
    /\ uploads' = uploads + 1
    /\ UNCHANGED <<calls, created>>

\* uploadBase64(base64String, network, url, options), up to the creation request.
UploadBase64(b64, chunkOpt, retryOpt) ==
    /\ FreeSlots # {}
    /\ LET h == StartOfUpload(Cur, chunkOpt, retryOpt)
           t == [IdleTask EXCEPT !.origin = "uploadBase64", !.ctx = "create",
                                 !.session = uploads + 1]
           fileSize == Base64FileSize(b64)
       IN  Apply(IF fileSize > h.chunkSizeRef
                 THEN Throw(h, t, Err("ValidationError", 0,
                                      "Base64 file size exceeds chunk size"))
                 ELSE InitializeAndStartUpload(
                          [h EXCEPT !.fileInfoRef =
                              [set |-> TRUE, fileSize |-> fileSize, isBase64 |-> TRUE,
                               hasData |-> b64.len > 0, hasUri |-> FALSE]],
                          t),
                 NewSlot, NoHistory)
    /\ uploads' = uploads + 1
    /\ UNCHANGED <<calls, created>>

\* A fetch resolved with a response.
FetchResolve(s, resp) ==
    /\ tasks[s].pc = "fetch"
    /\ resp \in Responses(tasks[s])
    /\ Apply(OnResponse(Cur,
                        [tasks[s] EXCEPT !.allRetryable =
                            @ /\ ~ResponseOk(resp)
                              /\ resp.status \in retryOptionsRef.retryableStatuses],
                        resp),
             s, DisturbedIf(history, ~ResponseOk(resp)))
    /\ created' = IF resp.location # 0 THEN created + 1 ELSE created
    /\ UNCHANGED <<uploads, calls>>

\* A fetch rejected: no response (a transport failure).
FetchReject(s) ==
    /\ tasks[s].pc = "fetch"
    /\ Apply(OnReject(Cur, [tasks[s] EXCEPT !.allRetryable = FALSE]), s,
             Disturbed)
    /\ UNCHANGED <<uploads, calls, created>>

\* The timer of a retry delay fired.
DelayDone(s) ==
    /\ tasks[s].pc = "delay"
    /\ Apply(AfterDelay(Cur, tasks[s]), s, history)
    /\ UNCHANGED <<uploads, calls, created>>

\* response.text() of a failed response resolved.
TextDone(s) ==
    /\ tasks[s].pc = "text"
    /\ Apply(AfterText(Cur, tasks[s]), s, history)
    /\ UNCHANGED <<uploads, calls, created>>

\* readAsStringAsync resolved (ok) or rejected.
ReadDone(s, ok) ==
    /\ tasks[s].pc = "read"
    /\ Apply(IF ok THEN AfterRead(Cur, tasks[s])
                   ELSE Throw(Cur, tasks[s], Err("Error", 0, "readAsStringAsync failed")),
             s, DisturbedIf(history, ~ok))
    /\ UNCHANGED <<uploads, calls, created>>

Pause ==
    /\ pausedRef' = TRUE
    /\ calls' = calls + 1
    /\ UNCHANGED <<progress, loading, error, uploadResponse, retryCount, uploadUrlRef,
                   cancelledRef, uploadOffsetRef, fileInfoRef, chunkSizeRef,
                   retryOptionsRef, lastResponseHeadersRef, tasks, uploads, created,
                   history>>

\* What cancel() leaves of the running tasks: nothing but the marks of the
\* history (a task is not stopped, a timer is not cleared).
CancelMarks(t) ==
    IF t.pc = "idle" THEN t
    ELSE [t EXCEPT !.cancelSeen = TRUE,
                   !.cancelledInWait = @ \/ t.pc = "delay"]

\* Mutant: cancel() leaves loading as it is.
CancelKeepsLoading ==
    /\ cancelledRef' = TRUE
    /\ loading' = loading
    /\ tasks' = [s \in Slots |-> CancelMarks(tasks[s])]
    /\ history' = Disturbed
    /\ calls' = calls + 1
    /\ UNCHANGED <<progress, error, uploadResponse, retryCount, uploadUrlRef,
                   pausedRef, uploadOffsetRef, fileInfoRef, chunkSizeRef,
                   retryOptionsRef, lastResponseHeadersRef, uploads, created>>

Cancel ==
    /\ cancelledRef' = TRUE
    /\ loading' = FALSE
    /\ tasks' = [s \in Slots |-> CancelMarks(tasks[s])]
    /\ history' = Disturbed
    /\ calls' = calls + 1
    /\ UNCHANGED <<progress, error, uploadResponse, retryCount, uploadUrlRef,
                   pausedRef, uploadOffsetRef, fileInfoRef, chunkSizeRef,
                   retryOptionsRef, lastResponseHeadersRef, uploads, created>>

\* if (pausedRef.current && uploadUrlRef.current && fileInfoRef.current)
ResumeCondition(h) == h.pausedRef /\ h.uploadUrlRef # NoUrl /\ h.fileInfoRef.set

Resume ==
    /\ IF ResumeCondition(Cur)
       THEN /\ FreeSlots # {}
            /\ Apply(ContinueUpload([Cur EXCEPT !.pausedRef = FALSE],
                                    [IdleTask EXCEPT !.origin = "resume",
                                                     !.session = uploads]),
                     NewSlot, history)
       ELSE UNCHANGED <<hookVars, tasks, history>>
    /\ calls' = calls + 1
    /\ UNCHANGED <<uploads, created>>

\* resetState as the caller calls it.
ResetStateCall ==
    /\ Set(ResetState(Cur))
    /\ history' = Disturbed
    /\ calls' = calls + 1
    /\ UNCHANGED <<tasks, uploads, created>>

---------------------------------------------------------------------------

Init ==
    /\ progress = Frac(0, 1)
    /\ loading = FALSE
    /\ error = NoError
    /\ uploadResponse = NullResponse
    /\ retryCount = 0
    /\ uploadUrlRef = NoUrl
    /\ pausedRef = FALSE
    /\ cancelledRef = FALSE
    /\ uploadOffsetRef = 0
    /\ fileInfoRef = NoFileInfo
    /\ chunkSizeRef = BASE_CHUNK_SIZE
    /\ retryOptionsRef = DEFAULT_RETRY_OPTIONS
    /\ lastResponseHeadersRef = NullHeaders
    /\ tasks = [s \in Slots |-> IdleTask]
    /\ uploads = 0
    /\ calls = 0
    /\ created = 0
    /\ history = NoHistory

Next ==
    \/ /\ uploads < MaxUploads
       /\ \E c \in ChunkSizeOptions, r \in RetryOptionInputs : Upload(c, r)
    \/ /\ uploads < MaxUploads
       /\ \E b \in Base64Inputs, c \in ChunkSizeOptions, r \in RetryOptionInputs :
             UploadBase64(b, c, r)
    \/ \E s \in Slots, o \in GetInfoOutcomes : GetInfoDone(s, o)
    \/ \E s \in Slots : \E resp \in Responses(tasks[s]) : FetchResolve(s, resp)
    \/ \E s \in Slots : FetchReject(s)
    \/ \E s \in Slots : DelayDone(s)
    \/ \E s \in Slots : TextDone(s)
    \/ \E s \in Slots, ok \in BOOLEAN : ReadDone(s, ok)
    \/ calls < MaxCalls /\ Pause
    \/ calls < MaxCalls /\ Resume
    \/ calls < MaxCalls /\ Cancel
    \/ calls < MaxCalls /\ ResetStateCall

Spec == Init /\ [][Next]_vars

---------------------------------------------------------------------------
(* Vocabulary of the properties *)

\* Task s is inside a call of fetchWithRetry.
InFetchWithRetry(s) == tasks[s].pc \in {"fetch", "delay", "text"}

\* The request of task s is in flight.
InFlight(s) == tasks[s].pc = "fetch"

ChunkInFlight(s) == InFlight(s) /\ tasks[s].ctx = "chunk"

\* The request of task s goes to the upload URL of the session the hook holds.
InSession(s) == tasks[s].url # NoUrl /\ tasks[s].url = uploadUrlRef

\* A response with a failure status that the current options retry.
RetryableFailure(resp) ==
    ~ResponseOk(resp) /\ resp.status \in retryOptionsRef.retryableStatuses

\* A response with a failure status that the current options do not retry.
NonRetryableFailure(resp) ==
    ~ResponseOk(resp) /\ resp.status \notin retryOptionsRef.retryableStatuses

\* The session ended in failure: error set, loading false.
Failed(h) == h.error # NoError /\ ~h.loading

---------------------------------------------------------------------------
(* C1: offset monotonicity.  While the hook holds one session (uploadUrlRef *)
(* keeps its value), every chunk request of the session that is answered    *)
(* with success strictly increases uploadOffsetRef, no step decreases       *)
(* uploadOffsetRef, and 0 <= uploadOffsetRef <= fileSize.                   *)

C1_OffsetMonotonic ==
    /\ [](uploadUrlRef # NoUrl /\ fileInfoRef.set
            => 0 <= uploadOffsetRef /\ uploadOffsetRef <= fileInfoRef.fileSize)
    /\ [][\A s \in Slots : \A resp \in Responses(tasks[s]) :
            ( /\ ChunkInFlight(s) /\ InSession(s) /\ ResponseOk(resp)
              /\ FetchResolve(s, resp)
              /\ uploadUrlRef' = uploadUrlRef )
            => uploadOffsetRef' > uploadOffsetRef]_vars
    /\ [][uploadUrlRef # NoUrl /\ uploadUrlRef' = uploadUrlRef
            => uploadOffsetRef' >= uploadOffsetRef]_vars

---------------------------------------------------------------------------
(* C2: at most one chunk request in flight.  No two chunk requests to the   *)
(* upload URL of the session are in flight at the same time.                *)

C2_AtMostOneInFlight ==
    \A s1 \in Slots, s2 \in Slots :
        ( /\ ChunkInFlight(s1) /\ InSession(s1)
          /\ ChunkInFlight(s2) /\ InSession(s2) )
        => s1 = s2

---------------------------------------------------------------------------
(* C3: retry ceiling.  With maxRetries = N >= 0, a chunk request whose every *)
(* answer is a retryable status is sent again after each answer until N + 1  *)
(* requests were sent; the answer to request N + 1 ends the call and the     *)
(* session is Failed (error set, loading false); there is no request N + 2.  *)
(* (A cancel() seen after a delay ends the call earlier.)                    *)

C3_RetryCeiling ==
    \A s \in Slots :
        LET t == tasks[s]
            N == t.configured
        IN  ( /\ InFetchWithRetry(s) /\ t.ctx = "chunk"
              /\ t.allRetryable /\ N >= 0 )
            => /\ t.sent <= N + 1
               /\ t.pc = "fetch" =>
                    \A resp \in Responses(t) :
                        RetryableFailure(resp) =>
                            LET b == OnResponse(Cur, t, resp)
                            IN  IF t.sent < N + 1
                                THEN b.t.pc = "delay" /\ b.t.sent = t.sent
                                ELSE b.t.pc = "text" /\ b.t.sent = N + 1
               /\ t.pc = "delay" =>
                    /\ t.sent < N + 1
                    /\ ~cancelledRef =>
                          LET b == AfterDelay(Cur, t)
                          IN  b.t.pc = "fetch" /\ b.t.sent = t.sent + 1
               /\ t.pc = "text" =>
                    /\ t.sent = N + 1
                    /\ LET b == AfterText(Cur, t)
                       IN  Failed(b.h) /\ b.t.pc = "idle"

\* The answer to request N + 1 = 3 of a chunk came, all answers retryable.
C3_Witness ==
    \E s \in Slots :
        /\ tasks[s].pc = "text" /\ tasks[s].ctx = "chunk"
        /\ tasks[s].allRetryable
        /\ tasks[s].configured = 2 /\ tasks[s].sent = 3

---------------------------------------------------------------------------
(* C4: non-retryable short-circuit.  When the first answer to a chunk       *)
(* request is a failure status that is not in retryableStatuses, the call   *)
(* returns at once: one request, no delay, retryCount unchanged (0 stays    *)
(* 0), and the session becomes Failed with the error of that status,        *)
(* whatever maxRetries is.                                                  *)

C4_NonRetryableShortCircuit ==
    \A s \in Slots :
        /\ (ChunkInFlight(s) /\ tasks[s].sent = 1) =>
              \A resp \in Responses(tasks[s]) :
                  NonRetryableFailure(resp) =>
                      LET b == OnResponse(Cur, tasks[s], resp)
                          c == AfterText(b.h, b.t)
                      IN  /\ b.t.pc = "text" /\ b.t.sent = 1 /\ b.t.delay = 0
                          /\ b.h.retryCount = retryCount
                          /\ c.t.pc = "idle"
                          /\ Failed(c.h)
                          /\ c.h.error.name = "NetworkError"
                          /\ c.h.error.status = resp.status
                          /\ c.h.retryCount = retryCount
        /\ (tasks[s].pc = "text" /\ tasks[s].ctx = "chunk") =>
              LET c == AfterText(Cur, tasks[s])
              IN  Failed(c.h) /\ c.t.pc = "idle" /\ c.h.retryCount = retryCount

\* The first answer to a chunk request was a 404, with retries configured.
C4_Witness ==
    \E s \in Slots :
        /\ tasks[s].pc = "text" /\ tasks[s].ctx = "chunk"
        /\ tasks[s].status = 404 /\ tasks[s].sent = 1
        /\ tasks[s].configured = 2
        /\ 500 \in retryOptionsRef.retryableStatuses
        /\ retryCount = 0

---------------------------------------------------------------------------
(* C5: zero retries.  With maxRetries = 0 a request (creation or chunk) is  *)
(* sent exactly once; a failure status, or a transport failure, ends it at  *)
(* once: no delay is waited and the call leaves retryCount as it is.        *)

C5_ZeroRetries ==
    \A s \in Slots :
        LET t == tasks[s] IN
        (InFetchWithRetry(s) /\ t.configured = 0)
        => /\ t.pc # "delay"
           /\ t.sent = 1
           /\ t.pc = "fetch" =>
                /\ \A resp \in Responses(t) :
                      ~ResponseOk(resp) =>
                          LET b == OnResponse(Cur, t, resp)
                          IN  /\ b.t.pc = "text" /\ b.t.sent = 1
                              /\ b.h.retryCount = retryCount
                /\ LET b == OnReject(Cur, t)
                   IN  /\ b.t.pc = "idle" /\ Failed(b.h)
                       /\ b.h.retryCount = retryCount
           /\ t.pc = "text" =>
                LET b == AfterText(Cur, t)
                IN  /\ b.t.pc = "idle" /\ Failed(b.h)
                    /\ b.h.retryCount = retryCount

\* A chunk request failed with a retryable status under maxRetries = 0.
C5_Witness ==
    \E s \in Slots :
        /\ tasks[s].pc = "text" /\ tasks[s].ctx = "chunk"
        /\ tasks[s].configured = 0 /\ tasks[s].status = 500
        /\ 500 \in retryOptionsRef.retryableStatuses
        /\ retryCount = 0

---------------------------------------------------------------------------
(* C6: backoff delay formula.  The delay waited after the failed attempt k  *)
(* is min(initialDelay * backoffMultiplier^k, maxDelay).                    *)

ClaimedDelay(opts, k) ==
    Min(opts.initialDelay * Pow(opts.backoffMultiplier, k), opts.maxDelay)

C6_BackoffFormula ==
    \A s \in Slots :
        tasks[s].pc = "delay" =>
            tasks[s].delay = ClaimedDelay(retryOptionsRef, tasks[s].attempt)

---------------------------------------------------------------------------
(* C7: backoff cap.  Every delay the retry loop computes is <= maxDelay;    *)
(* with initialDelay = 1000, backoffMultiplier = 1000, maxDelay = 100 every *)
(* computed delay is 100.                                                   *)

\* What the resolution of the fetch of task t can leave.
FetchOutcomes(t) ==
    {OnReject(Cur, t)} \cup {OnResponse(Cur, t, resp) : resp \in Responses(t)}

C7_BackoffCap ==
    \A s \in Slots :
        InFlight(s) =>
            \A b \in FetchOutcomes(tasks[s]) :
                b.t.pc = "delay" =>
                    /\ b.t.delay <= retryOptionsRef.maxDelay
                    /\ ( /\ retryOptionsRef.initialDelay = 1000
                         /\ retryOptionsRef.backoffMultiplier = 1000
                         /\ retryOptionsRef.maxDelay = 100 )
                       => b.t.delay = 100

\* The second delay (attempt 1) of the configuration 1000 / 1000 / 100.
C7_Witness ==
    \E s \in Slots :
        /\ tasks[s].pc = "delay" /\ tasks[s].attempt = 1
        /\ tasks[s].delay = 100
        /\ retryOptionsRef.initialDelay = 1000
        /\ retryOptionsRef.backoffMultiplier = 1000
        /\ retryOptionsRef.maxDelay = 100

---------------------------------------------------------------------------
(* C8: negative maxRetries is treated as 0.  With maxRetries < 0 the        *)
(* creation request is still sent once the file is known to exist.          *)

C8_NegativeMaxRetriesIsZero ==
    [][\A s \in Slots : \A o \in GetInfoOutcomes :
          ( /\ retryOptionsRef.maxRetries < 0
            /\ o.kind = "ok"
            /\ ~cancelledRef
            /\ GetInfoDone(s, o) )
          => tasks'[s].pc = "fetch" /\ tasks'[s].sent = 1]_vars

---------------------------------------------------------------------------
(* C9: empty retryableStatuses.  With retryableStatuses = {} a failure      *)
(* status ends the request (no delay, no further attempt); a transport      *)
(* failure is retried, whatever retryableStatuses is, as long as fewer than *)
(* maxRetries retries were made, and ends the request after that.           *)

C9_EmptyRetryableStatuses ==
    \A s \in Slots :
        LET t == tasks[s] IN
        /\ (InFlight(s) /\ retryOptionsRef.retryableStatuses = {}) =>
              \A resp \in Responses(t) :
                  ~ResponseOk(resp) =>
                      LET b == OnResponse(Cur, t, resp)
                      IN  b.t.pc = "text" /\ b.t.sent = t.sent
        /\ InFlight(s) =>
              LET b == OnReject(Cur, t)
              IN  IF t.sent <= t.configured
                  THEN b.t.pc = "delay" /\ b.t.lastError.name = "TypeError"
                  ELSE b.t.pc = "idle" /\ Failed(b.h)
        /\ (t.pc = "delay" /\ ~cancelledRef) =>
              LET b == AfterDelay(Cur, t)
              IN  b.t.pc = "fetch" /\ b.t.sent = t.sent + 1
        /\ (InFetchWithRetry(s) /\ t.configured >= 0) => t.sent <= t.configured + 1

\* A transport failure is being retried although no status is retryable.
C9_Witness ==
    \E s \in Slots :
        /\ tasks[s].pc = "fetch" /\ tasks[s].sent = 2
        /\ tasks[s].lastError.name = "TypeError"
        /\ retryOptionsRef.retryableStatuses = {}

---------------------------------------------------------------------------
(* C10: cancellation stops retrying.  A call of fetchWithRetry that was     *)
(* waiting out a retry delay when cancel() was called sends no request      *)
(* after that.                                                              *)

C10_CancelStopsRetrying ==
    \A s \in Slots : tasks[s].cancelledInWait => ~InFlight(s)

---------------------------------------------------------------------------
(* C11: cancellation during a retry wait ends in Cancelled, not Failed.     *)
(* When cancel() was called while a call of fetchWithRetry was waiting out  *)
(* a retry delay and the error was null, the end of the wait ends the call  *)
(* with the error of the failed attempt discarded: error stays null,        *)
(* loading is false.                                                        *)

C11_CancelInWaitIsCancelled ==
    [][\A s \in Slots :
          ( /\ tasks[s].pc = "delay" /\ tasks[s].cancelledInWait
            /\ cancelledRef /\ error = NoError
            /\ DelayDone(s) )
          => /\ tasks'[s].pc = "idle"
             /\ error' = NoError
             /\ ~loading']_vars

---------------------------------------------------------------------------
(* C12: authentication failure is never retried.  A 401 or 403 answer to    *)
(* the first creation request ends the call at once (no delay, no second    *)
(* creation request) and the session is Failed with an AuthenticationError, *)
(* whatever the retry options are.                                          *)

C12_AuthNeverRetried ==
    \A s \in Slots :
        (InFlight(s) /\ tasks[s].ctx = "create" /\ tasks[s].sent = 1) =>
            \A resp \in Responses(tasks[s]) :
                resp.status \in {401, 403} =>
                    LET b == OnResponse(Cur, tasks[s], resp)
                        c == AfterText(b.h, b.t)
                    IN  /\ b.t.pc = "text" /\ b.t.sent = 1
                        /\ c.t.pc = "idle"
                        /\ Failed(c.h)
                        /\ c.h.error.name = "AuthenticationError"

---------------------------------------------------------------------------
(* C13: no chunk before a destination.  A task sends chunk requests only    *)
(* after a creation request was answered 2xx with a Location (the requests  *)
(* of the undisturbed first session start with the creation request, and an *)
(* upload URL was handed out before any chunk request); a 2xx answer to the *)
(* creation request without Location ends the task with the session Failed  *)
(* (error set, loading false) and the step sends no chunk request.          *)

\* Task s sends a request in this step: it runs and comes out awaiting a fetch.
Sends(s) ==
    /\ tasks'[s].pc = "fetch"
    /\ CancelMarks(tasks'[s]) # CancelMarks(tasks[s])

SendsChunk(s) == Sends(s) /\ tasks'[s].ctx = "chunk"

C13_NoChunkBeforeDestination ==
    /\ [](\A s \in Slots :
            (tasks[s].ctx = "chunk" /\ tasks[s].pc # "idle") => created >= 1)
    /\ [](\A i \in 1 .. Len(history.requests) :
            (uploads = 1 /\ history.requests[i].kind = "chunk")
                => i > 1 /\ history.requests[1].kind = "create" /\ uploadUrlRef # NoUrl)
    /\ [][\A s \in Slots : \A resp \in Responses(tasks[s]) :
            ( /\ InFlight(s) /\ tasks[s].ctx = "create"
              /\ ResponseOk(resp) /\ resp.location = 0
              /\ FetchResolve(s, resp) )
            => /\ tasks'[s].pc = "idle"
               /\ error' # NoError /\ ~loading'
               /\ \A s2 \in Slots : ~SendsChunk(s2)]_vars

\* A creation request was answered 2xx without Location: one request, no chunk.
C13_Witness ==
    /\ error.msg = "Upload URL not provided" /\ ~loading
    /\ Len(history.requests) = 1 /\ history.requests[1].kind = "create"
    /\ \A s \in Slots : tasks[s].pc = "idle"

---------------------------------------------------------------------------
(* Vocabulary of the chunk sequence *)

Ceil(a, b) == (a + b - 1) \div b

\* The chunk requests of an uninterrupted transfer of totalSize bytes.
ExpectedChunks(totalSize, chunkSize) ==
    [i \in 1 .. Ceil(totalSize, chunkSize) |->
        [kind |-> "chunk",
         offset |-> (i - 1) * chunkSize,
         length |-> Min(chunkSize, totalSize - (i - 1) * chunkSize)]]

IsChunk(r) == r.kind = "chunk"

\* The chunk requests sent since the upload call.
ChunkRequests == SelectSeq(history.requests, IsChunk)

IsPrefix(a, b) == Len(a) <= Len(b) /\ \A i \in 1 .. Len(a) : a[i] = b[i]

Completed(h) == h.progress = Frac(100, 1) /\ ~h.loading /\ h.error = NoError

Quiet == \A s \in Slots : tasks[s].pc = "idle"

\* The window continueUpload computes for a file of totalSize bytes at offset.
Window(offset, totalSize, chunkSize) ==
    ContinueUpload([Cur EXCEPT !.uploadUrlRef = 1,
                               !.cancelledRef = FALSE,
                               !.pausedRef = FALSE,
                               !.uploadOffsetRef = offset,
                               !.chunkSizeRef = chunkSize,
                               !.fileInfoRef = [set |-> TRUE, fileSize |-> totalSize,
                                                isBase64 |-> FALSE, hasData |-> FALSE,
                                                hasUri |-> TRUE]],
                   IdleTask).t

MiB == 1024 * 1024

---------------------------------------------------------------------------
(* C14: chunk sequence of an all-success file upload.  In a file upload     *)
(* where every await succeeded and the caller called nothing but upload(),  *)
(* the chunk requests sent so far are the first ones of the sequence        *)
(* i |-> (offset i * chunkSize, length min(chunkSize, totalSize - i *       *)
(* chunkSize)), i < ceil(totalSize / chunkSize); when the tasks have ended  *)
(* all of them were sent, uploadOffsetRef = totalSize and the session is    *)
(* Completed.  For 120 MiB and chunkSize 50 MiB + 1 the windows of          *)
(* continueUpload are three, and the sequence has three requests.           *)

C14_ChunkSequence ==
    /\ ( /\ fileInfoRef.set /\ ~fileInfoRef.isBase64
         /\ uploads = 1 /\ calls = 0 /\ ~history.disturbed )
       => LET expected == ExpectedChunks(fileInfoRef.fileSize, chunkSizeRef) IN
          /\ IsPrefix(ChunkRequests, expected)
          /\ ((Quiet /\ uploadUrlRef # NoUrl) \/ progress = Frac(100, 1))
                => /\ ChunkRequests = expected
                   /\ uploadOffsetRef = fileInfoRef.fileSize
                   /\ Completed(Cur)
    /\ Len(ExpectedChunks(120 * MiB, BASE_CHUNK_SIZE)) = 3
    /\ \A i \in 0 .. 2 :
          LET w == Window(i * BASE_CHUNK_SIZE, 120 * MiB, BASE_CHUNK_SIZE) IN
          /\ w.pc = "read"
          /\ w.offset = ExpectedChunks(120 * MiB, BASE_CHUNK_SIZE)[i + 1].offset
          /\ w.chunkLength = ExpectedChunks(120 * MiB, BASE_CHUNK_SIZE)[i + 1].length
          /\ NewOffset(w.offset, w.chunkLength) =
                IF i < 2 THEN (i + 1) * BASE_CHUNK_SIZE ELSE 120 * MiB
    /\ Window(120 * MiB, 120 * MiB, BASE_CHUNK_SIZE).pc = "idle"

\* A file of 3 bytes was uploaded in chunks of 2: two requests, the last one short.
C14_Witness ==
    /\ fileInfoRef.set /\ ~fileInfoRef.isBase64
    /\ fileInfoRef.fileSize = 3 /\ chunkSizeRef = 2
    /\ calls = 0 /\ ~history.disturbed
    /\ Completed(Cur) /\ Quiet
    /\ Len(ChunkRequests) = 2 /\ ChunkRequests[2].length = 1

---------------------------------------------------------------------------
(* C15: pause / resume idempotence.  In a file upload where every await     *)
(* succeeded and the caller called nothing but pause() and resume(), the    *)
(* chunk requests sent are those of the uninterrupted transfer, in order:   *)
(* none is skipped, none is sent twice.                                     *)

C15_PauseResumeIdempotence ==
    ( /\ fileInfoRef.set /\ ~fileInfoRef.isBase64
      /\ uploads = 1 /\ ~history.disturbed )
    => LET expected == ExpectedChunks(fileInfoRef.fileSize, chunkSizeRef) IN
       /\ IsPrefix(ChunkRequests, expected)
       /\ progress = Frac(100, 1) => ChunkRequests = expected

---------------------------------------------------------------------------
(* C16: progress 100 is reserved for Completed.  The progress set after a   *)
(* chunk success is min(newOffset / totalSize * 100, 99.9), which is below  *)
(* 100, also after the last chunk; and in every state progress = 100        *)
(* implies that finalizeUpload ran (upload URL and file info are there),    *)
(* uploadOffsetRef = totalSize and the session is Completed (loading false, *)
(* no error).                                                               *)

C16_ProgressHundredIsCompleted ==
    /\ \A s \in Slots :
          ChunkInFlight(s) =>
              LET t == tasks[s]
                  newOffset == NewOffset(t.offset, t.chunkLength)
                  p == NewProgress(newOffset, t.fileSize)
              IN  /\ t.fileSize > 0
                  /\ p = FracMin(Frac(newOffset * 100, t.fileSize), Frac(999, 10))
                  /\ ~FracLeq(Frac(100, 1), p)
                  /\ \A resp \in Responses(t) :
                        (ResponseOk(resp) /\ ~cancelledRef)
                        => LET b == ChunkReturned(Cur, t, resp)
                           IN  b.h.progress = p \/ b.h.progress = Frac(100, 1)
    /\ progress = Frac(100, 1)
          => /\ uploadUrlRef # NoUrl /\ fileInfoRef.set
             /\ uploadOffsetRef = fileInfoRef.fileSize
             /\ Completed(Cur)

---------------------------------------------------------------------------
(* C17: terminal states are absorbing.  Once the session has ended (no task *)
(* runs, loading is false, and it is Failed: error set, Completed: progress *)
(* 100, or Cancelled: cancel() called), a call of pause(), resume() or      *)
(* cancel() starts no task (so no chunk request) and leaves uploadOffsetRef, *)
(* progress, error and uploadResponse as they are.                          *)

Terminal(h) ==
    /\ Quiet /\ ~h.loading
    /\ h.error # NoError \/ h.progress = Frac(100, 1) \/ h.cancelledRef

C17_TerminalAbsorbing ==
    [][(Terminal(Cur) /\ (Pause \/ Resume \/ Cancel))
          => /\ \A s \in Slots : tasks'[s].pc = "idle"
             /\ UNCHANGED <<uploadOffsetRef, progress, error, uploadResponse>>]_vars

---------------------------------------------------------------------------
(* C18: cancel() leads to Cancelled.  A task that was running when cancel() *)
(* was called, and that runs on while the cancellation is pending, does not *)
(* make the session Failed (it sets no error) nor Completed (it does not    *)
(* set progress to 100).                                                    *)

C18_CancelLeadsToCancelled ==
    [][\A s \in Slots :
          (tasks[s].cancelSeen /\ cancelledRef /\ tasks'[s] # tasks[s])
          => /\ error' = error \/ error' = NoError
             /\ progress' = Frac(100, 1) => progress = Frac(100, 1)]_vars

---------------------------------------------------------------------------
(* C19: no request after cancel().  A task that was running when cancel()   *)
(* was called sends no request after that (no creation request, no chunk    *)
(* request, no retry); cancel() itself leaves every task where it is: a     *)
(* request in flight stays in flight.                                       *)

C19_NoRequestAfterCancel ==
    /\ [][\A s \in Slots : tasks[s].cancelSeen => ~Sends(s)]_vars
    /\ [][Cancel => \A s \in Slots : tasks'[s].pc = tasks[s].pc]_vars

---------------------------------------------------------------------------
(* C20: cancel() makes loading false.  loading is false after cancel(), and *)
(* once loading is false no step but a call of upload() or uploadBase64()   *)
(* makes it true, whatever request resolves.                                *)

C20_CancelMakesLoadingFalse ==
    /\ [][Cancel => ~loading']_vars
    /\ [][(~loading /\ uploads' = uploads) => ~loading']_vars

\* A request that was in flight when cancel() was called got a failure answer.
C20_Witness ==
    \E s \in Slots :
        /\ tasks[s].cancelSeen /\ tasks[s].pc = "text"
        /\ cancelledRef /\ ~loading

---------------------------------------------------------------------------
(* Sessions one after the other: upload() or uploadBase64() is called again *)
(* when the tasks of the session before have ended; no retries, no other    *)
(* call of the caller.                                                      *)

NoRetries == [maxRetries |-> 0]

NextSequential ==
    \/ /\ uploads < MaxSessions /\ Quiet
       /\ \E c \in ChunkSizeOptions : Upload(c, NoRetries)
    \/ /\ uploads < MaxSessions /\ Quiet
       /\ \E b \in Base64Inputs, c \in ChunkSizeOptions : UploadBase64(b, c, NoRetries)
    \/ \E s \in Slots, o \in GetInfoOutcomes : GetInfoDone(s, o)
    \/ \E s \in Slots : \E resp \in Responses(tasks[s]) : FetchResolve(s, resp)
    \/ \E s \in Slots : FetchReject(s)
    \/ \E s \in Slots : TextDone(s)
    \/ \E s \in Slots, ok \in BOOLEAN : ReadDone(s, ok)

SpecSequential == Init /\ [][NextSequential]_vars

---------------------------------------------------------------------------
(* C21: no carry-over across sessions.  A call of upload() or               *)
(* uploadBase64() after the session before has ended leaves nothing of it:  *)
(* uploadOffsetRef = 0, no upload URL, pause and cancel flags false,        *)
(* retryCount 0, progress 0, no error but its own validation error, no      *)
(* uploadResponse and no stored response headers; and the identifier a      *)
(* session reports is the Upload-Cid of its own upload URL.                 *)

C21_NoCarryOver ==
    /\ [][uploads' = uploads + 1
            => /\ uploadOffsetRef' = 0 /\ uploadUrlRef' = NoUrl
               /\ ~pausedRef' /\ ~cancelledRef'
               /\ retryCount' = 0 /\ progress' = Frac(0, 1)
               /\ error' = NoError \/ error'.name = "ValidationError"
               /\ uploadResponse' = NullResponse
               /\ lastResponseHeadersRef' = NullHeaders]_vars
    /\ [](uploadResponse.kind = "cid" => uploadResponse.id = uploadUrlRef)

---------------------------------------------------------------------------
(* C22: finalization never fails for a missing identifier.  When progress   *)
(* is 100 the session is Completed (loading false, no error) and            *)
(* uploadResponse is an Upload-Cid or null; it is null when no chunk        *)
(* request was sent (a zero-length source).                                 *)

C22_FinalizationIdentifier ==
    progress = Frac(100, 1)
    => /\ ~loading /\ error = NoError
       /\ uploadResponse.kind \in {"cid", "null"}
       /\ (~history.disturbed /\ ChunkRequests = <<>>) => uploadResponse = NullResponse

---------------------------------------------------------------------------
(* C23: failures are reported through state.  Every step that ends a task   *)
(* with a failure (the error of a failed response after its text was read,  *)
(* a transport failure on the last attempt, a failed file read, a missing   *)
(* file or failed getInfoAsync, a creation answer without Location, a       *)
(* base64 source larger than the chunk size) ends the task (the promise     *)
(* resolves) with error set and loading false; the error of a failed        *)
(* response carries the status of the last answer, the error of a transport *)
(* failure is that failure.                                                 *)

FailureNames == {"NetworkError", "AuthenticationError"}

C23_FailuresThroughState ==
    [][/\ \A s \in Slots :
            /\ TextDone(s)
                  => /\ tasks'[s].pc = "idle" /\ ~loading'
                     /\ error'.name \in FailureNames
                     /\ error'.status = tasks[s].status
            /\ (/\ tasks[s].pc = "fetch" /\ tasks'[s].pc = "text"
                /\ \E resp \in Responses(tasks[s]) :
                      /\ ~ResponseOk(resp) /\ tasks'[s].status # resp.status
                      /\ FetchResolve(s, resp))
                  => FALSE
            /\ (FetchReject(s) /\ BreaksOnReject(tasks[s].attempt, tasks[s].maxRetries))
                  => /\ tasks'[s].pc = "idle" /\ ~loading'
                     /\ error'.name = "TypeError"
            /\ ReadDone(s, FALSE)
                  => tasks'[s].pc = "idle" /\ ~loading' /\ error' # NoError
            /\ (/\ tasks[s].pc = "getInfo"
                /\ \E o \in GetInfoOutcomes : o.kind # "ok" /\ GetInfoDone(s, o))
                  => tasks'[s].pc = "idle" /\ ~loading' /\ error' # NoError
            /\ (/\ tasks[s].pc = "fetch" /\ tasks[s].ctx = "create"
                /\ \E resp \in Responses(tasks[s]) :
                      /\ ResponseOk(resp) /\ resp.location = 0
                      /\ FetchResolve(s, resp))
                  => tasks'[s].pc = "idle" /\ ~loading' /\ error'.name = "NetworkError"
       /\ (/\ uploads' = uploads + 1
           /\ \E b \in Base64Inputs, c \in ChunkSizeOptions, r \in RetryOptionInputs :
                 Base64FileSize(b) > ChunkSizeOf(c) /\ UploadBase64(b, c, r))
             => /\ \A s \in Slots : tasks'[s] = tasks[s]
                /\ ~loading' /\ error'.name = "ValidationError"]_vars

\* A chunk failed by transport failures on all of its three attempts.
C23_Witness ==
    /\ Quiet /\ ~loading
    /\ error.name = "TypeError" /\ retryCount = 2
    /\ uploadUrlRef # NoUrl /\ ~cancelledRef

---------------------------------------------------------------------------
(* C24: memory-backed size validation.  uploadBase64() of a source whose    *)
(* decoded size is greater than the chunk size ends at once with a          *)
(* ValidationError (error set, loading false), no task and no request; a    *)
(* source of decoded size <= chunk size is accepted (no ValidationError,    *)
(* the file info holds its size) and, when every await succeeds and nothing *)
(* else is called, is transferred in exactly one chunk request of its       *)
(* whole size.                                                              *)

\* The validation at the start of uploadBase64.
Base64Validation ==
    [][uploads' = uploads + 1 =>
          \A b \in Base64Inputs, c \in ChunkSizeOptions, r \in RetryOptionInputs :
              UploadBase64(b, c, r) =>
                  IF Base64FileSize(b) > ChunkSizeOf(c)
                  THEN /\ error'.name = "ValidationError" /\ ~loading'
                       /\ tasks' = tasks
                       /\ history'.requests = <<>>
                  ELSE /\ error'.name # "ValidationError"
                       /\ fileInfoRef'.set /\ fileInfoRef'.isBase64
                       /\ fileInfoRef'.fileSize = Base64FileSize(b)]_vars

\* The one chunk request of a memory-backed source.
WholeSource == <<[kind |-> "chunk", offset |-> 0, length |-> fileInfoRef.fileSize]>>

\* The chunk requests of an undisturbed memory-backed upload are those expected.
Base64Transfer(expected) ==
    ( /\ fileInfoRef.set /\ fileInfoRef.isBase64
      /\ uploads = 1 /\ calls = 0 /\ ~history.disturbed )
    => /\ IsPrefix(ChunkRequests, expected)
       /\ (Quiet /\ uploadUrlRef # NoUrl)
             => ChunkRequests = expected /\ Completed(Cur)

C24_Base64SizeValidation ==
    Base64Validation /\ []Base64Transfer(WholeSource)

(* C24, amended: as above, but a source of decoded size 0 is accepted and   *)
(* completes with no chunk request; a source of decoded size between 1 and  *)
(* the chunk size is transferred in exactly one chunk request.              *)

C24_Base64SizeValidationAmended ==
    Base64Validation
    /\ []Base64Transfer(IF fileInfoRef.fileSize > 0 THEN WholeSource ELSE <<>>)

\* A source of exactly the chunk size was accepted and sent in one request.
C24_Witness ==
    /\ fileInfoRef.set /\ fileInfoRef.isBase64
    /\ fileInfoRef.fileSize = 2 /\ chunkSizeRef = 2
    /\ calls = 0 /\ ~history.disturbed
    /\ Quiet /\ Completed(Cur)
    /\ ChunkRequests = WholeSource

---------------------------------------------------------------------------
(* C25: retryCount counts the retries of the session.  Every retry that is  *)
(* made (a request sent at the end of a retry delay) increases retryCount   *)
(* by one, for the creation request and for every chunk; and retryCount     *)
(* does not decrease but by resetState() or a new upload (stated for a      *)
(* session in which the caller called nothing but upload / uploadBase64).   *)

C25_RetryCountCounts ==
    /\ [][\A s \in Slots :
            (calls = 0 /\ tasks[s].pc = "delay" /\ DelayDone(s) /\ Sends(s))
            => retryCount' = retryCount + 1]_vars
    /\ [][(calls = 0 /\ uploads' = uploads /\ calls' = calls)
            => retryCount' >= retryCount]_vars

---------------------------------------------------------------------------
(* C26: retryCount stays 0 when nothing is retried.  A call of upload() or  *)
(* uploadBase64() sets retryCount to 0; only the end of a retry delay makes *)
(* it another value than 0; and an answer that is a success, a status that  *)
(* is not in retryableStatuses (so every status when the list is empty), or *)
(* any failure under maxRetries = 0 starts no retry delay and leaves        *)
(* retryCount as it is.                                                     *)

C26_RetryCountStaysZero ==
    /\ [][uploads' = uploads + 1 => retryCount' = 0]_vars
    /\ [][(retryCount' # retryCount /\ retryCount' # 0)
            => \E s \in Slots : tasks[s].pc = "delay" /\ DelayDone(s)]_vars
    /\ [](\A s \in Slots :
            InFlight(s) =>
                /\ \A resp \in Responses(tasks[s]) :
                      ( \/ ResponseOk(resp) \/ NonRetryableFailure(resp)
                        \/ tasks[s].configured = 0 )
                      => LET b == OnResponse(Cur, tasks[s], resp)
                         IN  /\ b.t.pc # "delay"
                             /\ b.h.retryCount \in {retryCount, 0}
                /\ tasks[s].configured = 0
                      => LET b == OnReject(Cur, tasks[s])
                         IN  b.t.pc = "idle" /\ b.h.retryCount = retryCount)

\* A chunk failed with 404 on its first attempt, retries configured, none made.
C26_Witness ==
    /\ Quiet /\ calls = 0
    /\ error.name = "NetworkError" /\ error.status = 404
    /\ retryOptionsRef.maxRetries = 2
    /\ retryCount = 0

---------------------------------------------------------------------------
(* C27: resetState() returns the hook to its initial observable state.      *)
(* After resetState(), retryCount = 0, loading = false, progress = 0 and    *)
(* error = null.                                                            *)

C27_ResetStateIsInitial ==
    [][(calls' = calls + 1 /\ ResetStateCall)
          => /\ retryCount' = 0 /\ ~loading'
             /\ progress' = Frac(0, 1) /\ error' = NoError]_vars

---------------------------------------------------------------------------
(* C28: the creation request is retried like a chunk, with its own attempt  *)
(* counter.  With maxRetries = N >= 0 a creation request whose every answer *)
(* is a retryable status other than 401 / 403 is sent again after each      *)
(* answer until N + 1 requests were sent; the answer to request N + 1 ends  *)
(* the task with the session Failed, so no chunk request is sent.  Every    *)
(* call of fetchWithRetry counts from 0: the first chunk request after a    *)
(* creation that was retried is attempt 0 of N + 1.                         *)

NotAuth(status) == status \notin {401, 403}

C28_CreationRetried ==
    \A s \in Slots :
        LET t == tasks[s]
            N == t.configured
        IN  /\ (InFetchWithRetry(s) /\ N >= 0)
                  => t.sent = t.attempt + 1 /\ t.sent <= N + 1 /\ t.maxRetries = N
            /\ (InFetchWithRetry(s) /\ t.ctx = "create" /\ t.allRetryable /\ N >= 0)
                  => /\ t.pc = "fetch" =>
                          \A resp \in Responses(t) :
                              (RetryableFailure(resp) /\ NotAuth(resp.status)) =>
                                  LET b == OnResponse(Cur, t, resp)
                                  IN  IF t.sent < N + 1
                                      THEN b.t.pc = "delay" /\ b.t.sent = t.sent
                                      ELSE b.t.pc = "text" /\ b.t.sent = N + 1
                     /\ (t.pc = "delay" /\ ~cancelledRef) =>
                          LET b == AfterDelay(Cur, t)
                          IN  /\ b.t.pc = "fetch" /\ b.t.ctx = "create"
                              /\ b.t.sent = t.sent + 1
                     /\ (t.pc = "text" /\ NotAuth(t.status)) =>
                          /\ t.sent = N + 1
                          /\ LET b == AfterText(Cur, t)
                             IN  /\ b.t.pc = "idle" /\ Failed(b.h)
                                 /\ b.h.error.name = "NetworkError"
            /\ (InFlight(s) /\ t.ctx = "create") =>
                  \A resp \in Responses(t) :
                      (ResponseOk(resp) /\ resp.location # 0) =>
                          LET b == OnResponse(Cur, t, resp)
                          IN  b.t.pc = "fetch" =>
                                  /\ b.t.ctx = "chunk"
                                  /\ b.t.attempt = 0 /\ b.t.sent = 1
                                  /\ b.t.maxRetries = retryOptionsRef.maxRetries
            /\ t.pc = "read" =>
                  LET b == AfterRead(Cur, t)
                  IN  b.t.pc = "fetch" =>
                          /\ b.t.attempt = 0 /\ b.t.sent = 1
                          /\ b.t.maxRetries = retryOptionsRef.maxRetries

\* The answer to creation request N + 1 = 3 came, every answer was a 500.
C28_Witness ==
    \E s \in Slots :
        /\ tasks[s].pc = "text" /\ tasks[s].ctx = "create"
        /\ tasks[s].allRetryable /\ tasks[s].status = 500
        /\ tasks[s].configured = 2 /\ tasks[s].sent = 3
        /\ history.requests = <<>>

---------------------------------------------------------------------------
(* C29: exactly one terminal state.  Failed and Completed never hold        *)
(* together: in no state is error non-null while progress is 100.           *)

C29_OneTerminalState == ~(error # NoError /\ progress = Frac(100, 1))

---------------------------------------------------------------------------
(* C30: pause() is a no-op unless the session is Transferring.  A pause()   *)
(* called while the creation request is in flight has no effect on what     *)
(* follows: when the creation request is answered 2xx with a Location (the  *)
(* source is not empty, nobody cancelled), the first chunk is read or sent. *)

C30_PauseOnlyWhenTransferring ==
    [][\A s \in Slots :
          ( /\ tasks[s].pc = "fetch" /\ tasks[s].ctx = "create"
            /\ pausedRef /\ ~cancelledRef
            /\ fileInfoRef.set /\ fileInfoRef.fileSize > 0
            /\ \E resp \in Responses(tasks[s]) :
                  ResponseOk(resp) /\ resp.location # 0 /\ FetchResolve(s, resp) )
          => tasks'[s].pc \in {"fetch", "read"}]_vars

---------------------------------------------------------------------------
(* C31: pause takes effect only between chunks.  pause() leaves every task  *)
(* and uploadOffsetRef as they are; a chunk request in flight while the     *)
(* pause is pending that is answered with success sets uploadOffsetRef to   *)
(* the end of its chunk and progress to the share of that offset (or to 100 *)
(* when it was the last chunk of a base64 source), and the task sends no    *)
(* further request; once the loop has stopped with the pause observed, no   *)
(* task runs and uploadOffsetRef keeps its value while the pause stands.    *)

---------------------------------------------------------------------------
(* C32: resume() is a no-op unless the session is Paused.  Paused: a pause  *)
(* is pending, the loop has stopped (no task runs) and the session has not  *)
(* ended.  In every other state resume() starts no task and sends no        *)
(* request, and leaves uploadOffsetRef, progress, error, uploadResponse and *)
(* loading as they are.                                                     *)

Paused(h) ==
    /\ h.pausedRef /\ Quiet
    /\ h.loading /\ ~h.cancelledRef /\ h.error = NoError

C32_ResumeOnlyWhenPaused ==
    [][(calls' = calls + 1 /\ ~Paused(Cur) /\ Resume)
          => /\ tasks' = tasks
             /\ UNCHANGED <<uploadOffsetRef, progress, error, uploadResponse,
                            loading>>]_vars

---------------------------------------------------------------------------
(* C33: checkpoint before every retry wait.  When a chunk request is        *)
(* answered with a retryable failure (or fails in transport) while pause()  *)
(* or cancel() is pending, the task does not start the backoff delay.       *)

C33_CheckpointBeforeWait ==
    \A s \in Slots :
        (ChunkInFlight(s) /\ (pausedRef \/ cancelledRef)) =>
            \A b \in FetchOutcomes(tasks[s]) : b.t.pc # "delay"

---------------------------------------------------------------------------
(* C34: cancel() after termination is a no-op.  Called on a session that    *)
(* has ended (Completed, Failed or Cancelled, no task running), cancel()    *)
(* leaves progress, uploadResponse, error, uploadOffsetRef, uploadUrlRef,   *)
(* pausedRef, cancelledRef and loading as they are.                         *)

C34_CancelAfterTermination ==
    [][(calls' = calls + 1 /\ Terminal(Cur) /\ Cancel)
          => UNCHANGED <<progress, uploadResponse, error, uploadOffsetRef,
                         uploadUrlRef, pausedRef, cancelledRef, loading>>]_vars

---------------------------------------------------------------------------
(* Uploads that interrupt one another: upload() or uploadBase64() is called *)
(* again while the upload before has a request in flight (or has ended); no *)
(* retries, no other call of the caller.                                    *)

\* Every task that runs awaits the answer to a request.
RequestsInFlight == \A s \in Slots : tasks[s].pc \in {"idle", "fetch"}

NextInterrupting ==
    \/ /\ uploads < MaxSessions /\ RequestsInFlight
       /\ \E c \in ChunkSizeOptions : Upload(c, NoRetries)
    \/ /\ uploads < MaxSessions /\ RequestsInFlight
       /\ \E b \in Base64Inputs, c \in ChunkSizeOptions : UploadBase64(b, c, NoRetries)
    \/ \E s \in Slots, o \in GetInfoOutcomes : GetInfoDone(s, o)
    \/ \E s \in Slots : \E resp \in Responses(tasks[s]) : FetchResolve(s, resp)
    \/ \E s \in Slots : FetchReject(s)
    \/ \E s \in Slots : TextDone(s)
    \/ \E s \in Slots, ok \in BOOLEAN : ReadDone(s, ok)

SpecInterrupting == Init /\ [][NextInterrupting]_vars

\* Task s belongs to an upload that a later call of upload() has replaced.
Stale(s) == tasks[s].pc # "idle" /\ tasks[s].session < uploads

(* C35: a second upload() interrupting the first.  A task of the first      *)
(* upload that runs on after the second upload was started leaves           *)
(* uploadOffsetRef, progress, uploadResponse, error and loading as they     *)
(* are, and sends no request.                                               *)

C35_InterruptedUploadIsInert ==
    [][\A s \in Slots :
          (Stale(s) /\ uploads' = uploads /\ tasks'[s] # tasks[s])
          => /\ UNCHANGED <<uploadOffsetRef, progress, uploadResponse, error,
                            loading>>
             /\ ~Sends(s)]_vars

---------------------------------------------------------------------------
(* C36: retry attempts are counted per request.  Every chunk request starts *)
(* at attempt 0 with maxRetries read anew, whatever the requests before it  *)
(* consumed: the chunk sent after a read, and the chunk sent after a chunk  *)
(* (or the creation request) was answered 2xx on its last attempt.  While a *)
(* chunk is being transferred with maxRetries = N >= 0, attempt + 1         *)
(* requests were sent for it, at most N + 1; and the delay after the first  *)
(* failed attempt of a chunk is min(initialDelay, maxDelay).                *)

C36_AttemptsPerRequest ==
    \A s \in Slots :
        LET t == tasks[s]
            N == t.configured
        IN  /\ (InFetchWithRetry(s) /\ t.ctx = "chunk" /\ N >= 0)
                  => /\ t.sent = t.attempt + 1 /\ t.attempt <= N
                     /\ t.pc = "delay" =>
                            ( t.attempt = 0 =>
                                \/ t.delay = Min(retryOptionsRef.initialDelay,
                                                 retryOptionsRef.maxDelay)
                                \/ uploads > 1 )
            /\ t.pc = "read" =>
                  LET b == AfterRead(Cur, t)
                  IN  b.t.pc = "fetch" => b.t.attempt = 0 /\ b.t.delay = 0
            /\ InFlight(s) =>
                  \A resp \in Responses(t) :
                      ResponseOk(resp) =>
                          LET b == OnResponse(Cur, t, resp)
                          IN  (b.t.pc = "fetch" /\ b.t.ctx = "chunk") =>
                                  /\ b.t.attempt = 0 /\ b.t.delay = 0
                                  /\ b.t.configured = retryOptionsRef.maxRetries

\* The second chunk failed for the first time after the transfer before it had
\* used both of its retries: its wait is the initial delay again.
C36_Witness ==
    \E s \in Slots :
        /\ tasks[s].pc = "delay" /\ tasks[s].ctx = "chunk"
        /\ tasks[s].offset = 2 /\ tasks[s].attempt = 0
        /\ tasks[s].delay = 1000
        /\ retryCount = 2 /\ tasks[s].configured = 2
        /\ calls = 0

---------------------------------------------------------------------------
(* C37: a failed chunk does not move the offset.  Whatever the answer to a  *)
(* chunk request that is not a success (a failure status, retried or not,   *)
(* or a transport failure), and whatever follows it in the task (the wait,  *)
(* the reading of the error body, the catch), uploadOffsetRef and progress  *)
(* stay as they are; a retry carries the offset and the length of the       *)
(* attempt before; and a success answer, also after retries, sets           *)
(* uploadOffsetRef to the chunk's offset plus its length (with one loop and *)
(* no call of the caller in between that is uploadOffsetRef plus the        *)
(* chunk's length).                                                         *)

SameChunk(t, b) ==
    /\ b.h.uploadOffsetRef = uploadOffsetRef
    /\ b.h.progress = progress
    /\ b.t.pc # "idle" =>
          /\ b.t.ctx = "chunk"
          /\ b.t.offset = t.offset /\ b.t.chunkLength = t.chunkLength
          /\ b.t.url = t.url

---------------------------------------------------------------------------
(* Termination: one upload with at most one retry per request, during which *)
(* the caller may call resetState() once; every pending await (file info,   *)
(* request, timer, body, read) is resolved in the end.                      *)

OneRetry == [maxRetries |-> 1]

\* The await task s is suspended at is resolved.
TaskStep(s) ==
    \/ \E o \in GetInfoOutcomes : GetInfoDone(s, o)
    \/ \E resp \in Responses(tasks[s]) : FetchResolve(s, resp)
    \/ FetchReject(s)
    \/ DelayDone(s)
    \/ TextDone(s)
    \/ \E ok \in BOOLEAN : ReadDone(s, ok)

NextTerminating ==
    \/ /\ uploads < MaxUploads
       /\ \E c \in ChunkSizeOptions, r \in {NoRetries, OneRetry} : Upload(c, r)
    \/ /\ uploads < MaxUploads
       /\ \E b \in Base64Inputs, c \in ChunkSizeOptions, r \in {NoRetries, OneRetry} :
             UploadBase64(b, c, r)
    \/ \E s \in Slots : TaskStep(s)
    \/ calls < 1 /\ ResetStateCall

SpecTerminating ==
    /\ Init /\ [][NextTerminating]_vars
    /\ \A s \in Slots : WF_vars(TaskStep(s))

(* C38: termination.  With every pending await resolved in the end, a       *)
(* session that was started (loading true) and is never paused reaches      *)
(* loading = false, also when resetState() is called while it runs.         *)

C38_Termination == loading ~> ~loading

---------------------------------------------------------------------------
(* C39: retryCount is bounded by the configuration.  retryCount is never    *)
(* negative, no step of a task raises it above the maxRetries the task's    *)
(* call of fetchWithRetry read, and the step that raises retryCount sends   *)
(* the retry it counts.                                                     *)

C39_RetryCountBounded ==
    /\ [](retryCount >= 0)
    /\ [][\A s \in Slots :
            (tasks[s].pc = "delay" /\ retryCount' # retryCount /\ DelayDone(s))
            => /\ retryCount' <= tasks[s].maxRetries
               /\ Sends(s)]_vars

---------------------------------------------------------------------------
(* C40: lastResponseMetadata holds only successful responses.  The stored   *)
(* headers are empty (none stored) or the headers of a response with a 2xx  *)
(* status.                                                                  *)

C40_HeadersOfSuccessOnly ==
    lastResponseHeadersRef.set =>
        (lastResponseHeadersRef.status >= 200 /\ lastResponseHeadersRef.status <= 299)

====
